---- MODULE Spec2Model ----
(***************************************************************************)
(* Model of the ZedStore page inspection functions of                      *)
(* src/backend/access/zedstore/zedstore_inspect.c:                         *)
(*   pg_zs_page_type, pg_zs_undo_pages, pg_zs_toast_pages,                 *)
(*   pg_zs_dump_attstreams, pg_zs_btree_pages, pg_zs_meta_page.            *)
(*                                                                         *)
(* One backend runs one inspection call at a time against a relation of    *)
(* NBlocks pages.  Every page is a record holding the page-kind tag of its *)
(* trailer, the size class of the trailer and the fields the overlays of   *)
(* the inspection functions read.  The trailer's zs_page_id member of      *)
(* every overlay struct is taken to be the tag stored in the last two      *)
(* bytes of the page (the bytes pg_zs_page_type reads).                    *)
(*                                                                         *)
(* Page locks are the buffer content locks: the backend's own locks are in *)
(* `held`; a concurrent reader backend may hold one page in shared mode    *)
(* (`reader`); the undo-log writers of the storage engine (modelled from   *)
(* the specification) act atomically on pages nobody else has locked.      *)
(***************************************************************************)
EXTENDS Integers, Sequences, FiniteSets, TLC

(***************************************************************************)
(* Bounds of the model.                                                    *)
(***************************************************************************)
PageSpace == 8      \* allocation units of item space on an empty page
NBlocks == 3        \* pages of the relation: 0 (metapage) .. NBlocks-1
MaxRecs == 2        \* undo records an undo page holds at most
MaxRows == 3        \* rows a set-returning call emits at most
MaxCounter == 6     \* undo record counters handed out at most

(***************************************************************************)
(* Program constants.                                                      *)
(***************************************************************************)
ZS_META_BLK == 0
\* 0xFFFFFFFF in the program; here the largest number a 32-bit signed integer holds:
\* like the original it is larger than every block number of a relation.
InvalidBlockNumber == 2147483647
ZS_META_PAGE_ID == 61571
ZS_BTREE_PAGE_ID == 61572
ZS_UNDO_PAGE_ID == 61573
ZS_TOAST_PAGE_ID == 61574
ZS_FREE_PAGE_ID == 61575
ZS_META_ATTRIBUTE_NUM == 0
TagWidth == 16      \* zs_page_id is a uint16

Blocks == 0 .. (NBlocks - 1)
DataBlocks == 1 .. (NBlocks - 1)
KnownTags == {ZS_META_PAGE_ID, ZS_BTREE_PAGE_ID, ZS_UNDO_PAGE_ID,
              ZS_TOAST_PAGE_ID, ZS_FREE_PAGE_ID}
AllTags == 0 .. (2 ^ TagWidth - 1)

VARIABLES
    rel,          \* the relation: block number -> page
    reader,       \* page a concurrent reader holds a shared lock on, or InvalidBlockNumber
    counter,      \* last undo record counter handed out by the undo log
    pc,           \* position of the inspecting backend
    fn,           \* inspection function being executed ("none" when idle)
    caller,       \* [superuser, othertemp]: who calls, and on what relation
    decoder,      \* pg_zs_decode_chunk: attstream_decoder set up from the arguments
    held,         \* page locks the inspecting backend holds: set of <<blkno, mode>>
    blkno,        \* local blkno / pageno
    zs_page_id,   \* pg_zs_page_type: tag read from the page
    ptr,          \* pg_zs_undo_pages: offset of the record cursor past the page header
    nrecords,     \* pg_zs_undo_pages: records counted on the current page
    firstptr,     \* pg_zs_undo_pages: counter of the first record of the page
    lastptr,      \* pg_zs_undo_pages: counter of the last record of the page
    values,       \* pg_zs_meta_page: columns filled so far
    rows,         \* tuplestore: emitted rows, in order
    result,       \* outcome of the call: [kind, val]
    touched,      \* pages the call has read (ReadBuffer) so far
    tagChecked,   \* the tag of the page under inspection has been compared
    earlyRead,    \* a trailer field was read before the tag was compared
    polled,       \* cancellation polls since the last page read of a scan
    metaSnap,     \* pg_zs_meta_page: metapage as it was when its lock was granted
    liveAtEmit    \* pg_zs_undo_pages: for each row, was the page linked in the undo chain

vars == <<rel, reader, counter, pc, fn, caller, decoder, held, blkno, zs_page_id, ptr,
          nrecords, firstptr, lastptr, values, rows, result, touched,
          tagChecked, earlyRead, polled, metaSnap, liveAtEmit>>

env == <<rel, reader, counter>>
call == <<fn, caller, decoder>>
locals == <<blkno, zs_page_id, ptr, nrecords, firstptr, lastptr, values>>
ghosts == <<tagChecked, earlyRead, polled, metaSnap, liveAtEmit>>

(***************************************************************************)
(* Pages.                                                                  *)
(***************************************************************************)
NoStream == << >>

BlankPage ==
    [tag |-> 0, specialsz |-> "other", next |-> InvalidBlockNumber,
     recs |-> << >>,
     undo_head |-> InvalidBlockNumber, undo_tail |-> InvalidBlockNumber,
     undo_tail_first_counter |-> 0,
     oldest_counter |-> 0, oldest_blkno |-> InvalidBlockNumber, oldest_offset |-> 0,
     fpm_head |-> InvalidBlockNumber, flags |-> 0,
     attno |-> 0, level |-> 0, lokey |-> 0, hikey |-> 0,
     items |-> << >>, lower |-> NoStream, upper |-> NoStream, ninternal |-> 0,
     tid |-> 0, total_size |-> 0, slice_offset |-> 0, prev |-> InvalidBlockNumber,
     decompressed_size |-> 0, is_compressed |-> FALSE]

\* An undo record: its size (in allocation units), and its own pointer.
UndoRec(b, c, sz) == [size |-> sz, counter |-> c, blkno |-> b]

\* The first k records of the page b of a static relation.
StaticRecs(b, k) == [i \in 1 .. k |-> UndoRec(b, 10 * b + i, 1 + (i % 2))]

UndoPage(nxt, rs) ==
    [BlankPage EXCEPT !.tag = ZS_UNDO_PAGE_ID, !.specialsz = "ZSUndoPageOpaque",
                      !.next = nxt, !.recs = rs]

FreePage(nxt) ==
    [BlankPage EXCEPT !.tag = ZS_FREE_PAGE_ID, !.specialsz = "ZSFreePageOpaque",
                      !.next = nxt]

MetaPage(head, tail) ==
    [BlankPage EXCEPT !.tag = ZS_META_PAGE_ID, !.specialsz = "ZSMetaPageOpaque",
                      !.undo_head = head, !.undo_tail = tail]

BtreePage(att, lvl) ==
    [BlankPage EXCEPT !.tag = ZS_BTREE_PAGE_ID, !.specialsz = "ZSBtreePageOpaque",
                      !.attno = att, !.level = lvl, !.lokey = 1, !.hikey = 9]

Stream(sz, compressed, dsz) ==
    [t_size |-> sz, compressed |-> compressed, t_decompressed_size |-> dsz,
     nchunks |-> 1]

ToastPage(t) ==
    [BlankPage EXCEPT !.tag = ZS_TOAST_PAGE_ID, !.specialsz = "ZSToastPageOpaque",
                      !.tid = t, !.total_size = 7, !.decompressed_size = 7]


(***************************************************************************)
(* Relations the static specification starts from: well-formed pages of    *)
(* every kind, and corrupt ones (wrong tag for the trailer size, a block 0 *)
(* that is no metapage, undo chains that are cyclic or lead off the file). *)
(***************************************************************************)
MetaTemplates ==
    {MetaPage(h, h) : h \in {InvalidBlockNumber} \cup DataBlocks}
    \cup {[MetaPage(1, 1) EXCEPT !.tag = 0]}
    \cup {[BtreePage(0, 0) EXCEPT !.undo_head = g] : g \in {1, NBlocks}}

DataTemplates(b) ==
    {UndoPage(n, StaticRecs(b, k)) :
        n \in {InvalidBlockNumber} \cup (DataBlocks \ {b}), k \in 0 .. MaxRecs}
    \cup {FreePage(InvalidBlockNumber)}
    \cup {[BtreePage(ZS_META_ATTRIBUTE_NUM, 0) EXCEPT !.items = <<3, 4>>]}
    \cup {[BtreePage(1, 0) EXCEPT !.lower = <<Stream(3, FALSE, 0)>>,
                                  !.upper = <<Stream(2, TRUE, 6)>>]}
    \cup {BtreePage(1, 0)}
    \cup {[BtreePage(1, 1) EXCEPT !.ninternal = 2]}
    \cup {ToastPage(5)}
    \cup {[BtreePage(1, 0) EXCEPT !.tag = ZS_TOAST_PAGE_ID]}
    \cup {BlankPage}

StaticRelations ==
    {r \in [Blocks -> UNION {DataTemplates(b) : b \in DataBlocks} \cup MetaTemplates] :
        /\ r[ZS_META_BLK] \in MetaTemplates
        /\ \A b \in DataBlocks : r[b] \in DataTemplates(b)}

(***************************************************************************)
(* Host services the inspection functions call (bufmgr, lwlock, xact):     *)
(* modelled from their documented contracts.                               *)
(***************************************************************************)
\* ReadBuffer raises an error for a block past the end of the relation.
ReadBufferFails(b) == b \notin Blocks

\* LockBuffer grants a content lock when no other backend holds a conflicting
\* one; content locks are not re-entrant: a backend asking for a page it has
\* locked itself waits for its own lock.
LockGranted(b, mode) ==
    /\ mode = "SHARE" \/ reader # b
    /\ \A l \in held : l[1] # b

\* ereport(ERROR): transaction abort releases every content lock still held.
AbortCleanup(h) == {}

NoResult == [kind |-> "none", val |-> << >>]

\* The decoder before init_attstream_decoder.
NoDecoder ==
    [attbyval |-> FALSE, attlen |-> 0, chunk |-> FALSE, num_elements |-> 0,
     tids |-> << >>, datums |-> << >>, isnulls |-> << >>]
ErrorResult(msg) == [kind |-> "error", val |-> msg]

\* Locals and ghosts as they are when no call is running.
ResetLocals ==
    /\ blkno = InvalidBlockNumber
    /\ zs_page_id = 0
    /\ ptr = 0
    /\ nrecords = 0
    /\ firstptr = 0
    /\ lastptr = 0
    /\ values = << >>

ResetGhosts ==
    /\ tagChecked = FALSE
    /\ earlyRead = FALSE
    /\ polled = 0
    /\ metaSnap = BlankPage
    /\ liveAtEmit = << >>

IdleBackend ==
    /\ pc = "idle"
    /\ fn = "none"
    /\ caller = [superuser |-> TRUE, othertemp |-> FALSE]
    /\ decoder = NoDecoder
    /\ held = {}
    /\ rows = << >>
    /\ result = NoResult
    /\ touched = {}
    /\ ResetLocals
    /\ ResetGhosts

Init ==
    /\ rel \in StaticRelations
    /\ reader = InvalidBlockNumber
    /\ counter = 0
    /\ IdleBackend

Functions == {"pg_zs_page_type", "pg_zs_undo_pages", "pg_zs_toast_pages",
              "pg_zs_dump_attstreams", "pg_zs_btree_pages", "pg_zs_meta_page"}

\* Raise an error: the call ends, abort cleanup releases the locks.
Raise(msg) ==
    /\ pc' = "error"
    /\ result' = ErrorResult(msg)
    /\ held' = AbortCleanup(held)

(***************************************************************************)
(* Entry of every function: superuser check, then (set-returning ones) the *)
(* caller-context checks; table_open; RELATION_IS_OTHER_TEMP check.        *)
(***************************************************************************)
EntryError(f, su, ctxok) ==
    IF ~su THEN "must be superuser to use zedstore inspection functions"
    ELSE IF f # "pg_zs_page_type" /\ ~ctxok
         THEN "set-valued function called in context that cannot accept a set"
         ELSE "none"

OtherTempError_Unchecked(c) == "none"

OtherTempError(c) ==
    IF c.othertemp THEN "cannot access temporary tables of other sessions"
    ELSE "none"

FirstStep(f) ==
    CASE f = "pg_zs_page_type" -> "pt_read"
      [] f = "pg_zs_undo_pages" -> "up_meta_read"
      [] f = "pg_zs_toast_pages" -> "tp_start"
      [] f = "pg_zs_dump_attstreams" -> "da_poll"
      [] f = "pg_zs_btree_pages" -> "bp_start"
      [] f = "pg_zs_meta_page" -> "mp_read"

Call(f, su, temp, ctxok, pageno) ==
    /\ pc = "idle"
    /\ fn' = f
    /\ caller' = [superuser |-> su, othertemp |-> temp]
    /\ blkno' = IF f \in {"pg_zs_page_type", "pg_zs_dump_attstreams"}
                THEN pageno ELSE InvalidBlockNumber
    /\ IF EntryError(f, su, ctxok) # "none"
       THEN /\ Raise(EntryError(f, su, ctxok))
       ELSE /\ pc' = IF f = "pg_zs_meta_page" THEN "mp_poll" ELSE "open"
            /\ UNCHANGED <<result, held>>
    /\ UNCHANGED <<rel, reader, counter, decoder, zs_page_id, ptr, nrecords,
                   firstptr, lastptr, values, rows, touched>>
    /\ UNCHANGED ghosts

\* table_open, then the check for temporary relations of other sessions.
Open ==
    /\ pc = "open"
    /\ IF OtherTempError(caller) # "none"
       THEN Raise(OtherTempError(caller))
       ELSE /\ pc' = FirstStep(fn)
            /\ UNCHANGED <<result, held>>
    /\ UNCHANGED <<rel, reader, counter, fn, caller, decoder, rows, touched>>
    /\ UNCHANGED locals
    /\ UNCHANGED ghosts

\* The call has ended and so does the session: error cleanup has run, or the
\* backend exits, which releases every lock it holds; a backend is idle again.
Finish ==
    /\ pc \in {"done", "error", "crashed"}
    /\ pc' = "idle"
    /\ fn' = "none"
    /\ caller' = [superuser |-> TRUE, othertemp |-> FALSE]
    /\ decoder' = NoDecoder
    /\ held' = {}
    /\ rows' = << >>
    /\ result' = NoResult
    /\ touched' = {}
    /\ blkno' = InvalidBlockNumber
    /\ zs_page_id' = 0
    /\ ptr' = 0
    /\ nrecords' = 0
    /\ firstptr' = 0
    /\ lastptr' = 0
    /\ values' = << >>
    /\ tagChecked' = FALSE
    /\ earlyRead' = FALSE
    /\ polled' = 0
    /\ metaSnap' = BlankPage
    /\ liveAtEmit' = << >>
    /\ UNCHANGED <<rel, reader, counter>>

(***************************************************************************)
(* A concurrent reader backend: takes and releases a shared content lock.  *)
(***************************************************************************)
ReaderLock(b) ==
    /\ reader = InvalidBlockNumber
    /\ \A l \in held : ~(l[1] = b /\ l[2] = "EXCLUSIVE")
    /\ reader' = b
    /\ UNCHANGED <<rel, counter, pc, fn, caller, decoder, held, rows, result, touched>>
    /\ UNCHANGED locals
    /\ UNCHANGED ghosts

ReaderUnlock ==
    /\ reader # InvalidBlockNumber
    /\ reader' = InvalidBlockNumber
    /\ UNCHANGED <<rel, counter, pc, fn, caller, decoder, held, rows, result, touched>>
    /\ UNCHANGED locals
    /\ UNCHANGED ghosts

(***************************************************************************)
(* pg_zs_page_type                                                         *)
(***************************************************************************)
\* psprintf("UNKNOWN 0x%04x", id): the four hexadecimal digits of a uint16.
Hex4(id) == <<(id \div 4096) % 16, (id \div 256) % 16, (id \div 16) % 16, id % 16>>

PageTypeName_NoFree(id) ==
    CASE id = ZS_META_PAGE_ID -> <<"META">>
      [] id = ZS_BTREE_PAGE_ID -> <<"BTREE">>
      [] id = ZS_UNDO_PAGE_ID -> <<"UNDO">>
      [] id = ZS_TOAST_PAGE_ID -> <<"TOAST">>
      [] OTHER -> <<"UNKNOWN">> \o Hex4(id)

PageTypeName(id) ==
    CASE id = ZS_META_PAGE_ID -> <<"META">>
      [] id = ZS_BTREE_PAGE_ID -> <<"BTREE">>
      [] id = ZS_UNDO_PAGE_ID -> <<"UNDO">>
      [] id = ZS_TOAST_PAGE_ID -> <<"TOAST">>
      [] id = ZS_FREE_PAGE_ID -> <<"FREE">>
      [] OTHER -> <<"UNKNOWN">> \o Hex4(id)

pt_ReadBuffer ==
    /\ pc = "pt_read"
    /\ IF ReadBufferFails(blkno)
       THEN /\ Raise("block number out of range")
            /\ UNCHANGED touched
       ELSE /\ touched' = touched \cup {blkno}
            /\ pc' = "pt_lock"
            /\ UNCHANGED <<result, held>>
    /\ UNCHANGED <<rel, reader, counter, fn, caller, decoder, rows>>
    /\ UNCHANGED locals
    /\ UNCHANGED ghosts

pt_LockMode == "SHARE"

pt_LockBuffer ==
    /\ pc = "pt_lock"
    /\ LockGranted(blkno, pt_LockMode)
    /\ held' = held \cup {<<blkno, pt_LockMode>>}
    /\ pc' = "pt_page"
    /\ UNCHANGED <<rel, reader, counter, fn, caller, decoder, rows, result, touched>>
    /\ UNCHANGED locals
    /\ UNCHANGED ghosts

\* Read the tag from the last two bytes, unlock, close.
pt_ReadTag ==
    /\ pc = "pt_page"
    /\ zs_page_id' = rel[blkno].tag
    /\ tagChecked' = TRUE
    /\ held' = held \ {<<blkno, pt_LockMode>>}
    /\ pc' = "pt_switch"
    /\ UNCHANGED <<rel, reader, counter, fn, caller, decoder, rows, result, touched,
                   blkno, ptr, nrecords, firstptr, lastptr, values,
                   earlyRead, polled, metaSnap, liveAtEmit>>

pt_Switch ==
    /\ pc = "pt_switch"
    /\ result' = [kind |-> "text", val |-> PageTypeName(zs_page_id)]
    /\ pc' = "done"
    /\ UNCHANGED <<rel, reader, counter, fn, caller, decoder, held, rows, touched>>
    /\ UNCHANGED locals
    /\ UNCHANGED ghosts


(***************************************************************************)
(* Page geometry: pd_lower as an offset past the page header, and the free *)
(* space between pd_lower and pd_upper, in allocation units.               *)
(***************************************************************************)
RECURSIVE SumSizes(_, _)
SumSizes(rs, n) == IF n = 0 THEN 0 ELSE rs[n].size + SumSizes(rs, n - 1)

RECURSIVE SumSeq(_)
SumSeq(q) == IF q = << >> THEN 0 ELSE Head(q) + SumSeq(Tail(q))

StreamSizes(q) == [i \in 1 .. Len(q) |-> q[i].t_size]

pd_lower(page) ==
    SumSizes(page.recs, Len(page.recs)) + SumSeq(StreamSizes(page.lower))

PageGetExactFreeSpace(page) ==
    PageSpace - pd_lower(page) - SumSeq(page.items) - SumSeq(StreamSizes(page.upper))

\* The record an overlay at offset off (past the page header) reads.
RecAt(page, off) ==
    page.recs[CHOOSE i \in 1 .. Len(page.recs) :
                 /\ SumSizes(page.recs, i - 1) = off
                 /\ \A j \in 1 .. (i - 1) : SumSizes(page.recs, j - 1) # off]

\* The pages linked from the metapage's undo head, in chain order (ghost).
RECURSIVE ChainFrom(_, _, _)
ChainFrom(r, b, fuel) ==
    IF b \notin DataBlocks \/ fuel = 0 \/ r[b].tag # ZS_UNDO_PAGE_ID THEN << >>
    ELSE <<b>> \o ChainFrom(r, r[b].next, fuel - 1)

UndoChain(r) == ChainFrom(r, r[ZS_META_BLK].undo_head, NBlocks)

InChain(r, b) == \E i \in 1 .. Len(UndoChain(r)) : UndoChain(r)[i] = b

(***************************************************************************)
(* CHECK_FOR_INTERRUPTS: a pending cancel request raises an error.         *)
(***************************************************************************)
CheckForInterrupts(cancel, nextpc) ==
    IF cancel
    THEN /\ Raise("canceling statement due to user request")
         /\ UNCHANGED polled
    ELSE /\ pc' = nextpc
         /\ polled' = polled + 1
         /\ UNCHANGED <<result, held>>

(***************************************************************************)
(* pg_zs_undo_pages                                                        *)
(***************************************************************************)
up_MetaLockMode == "SHARE"
up_LockMode == "EXCLUSIVE"

up_MetaReadBuffer ==
    /\ pc = "up_meta_read"
    /\ touched' = touched \cup {ZS_META_BLK}
    /\ tagChecked' = FALSE
    /\ pc' = "up_meta_lock"
    /\ UNCHANGED <<env, call, held, rows, result, locals,
                   earlyRead, polled, metaSnap, liveAtEmit>>

up_MetaLockBuffer ==
    /\ pc = "up_meta_lock"
    /\ LockGranted(ZS_META_BLK, up_MetaLockMode)
    /\ held' = held \cup {<<ZS_META_BLK, up_MetaLockMode>>}
    /\ pc' = "up_meta_head"
    /\ UNCHANGED <<env, call, rows, result, touched, locals, ghosts>>

\* Whether the metapage's tag is compared before zs_undo_head is taken: it is not.
up_MetaTagCompared == FALSE

\* firstblk = metaopaque->zs_undo_head; UnlockReleaseBuffer(metabuf); blkno = firstblk
up_MetaGetHead ==
    /\ pc = "up_meta_head"
    /\ tagChecked' = up_MetaTagCompared
    /\ earlyRead' = (earlyRead \/ ~up_MetaTagCompared)
    /\ blkno' = rel[ZS_META_BLK].undo_head
    /\ held' = held \ {<<ZS_META_BLK, up_MetaLockMode>>}
    /\ pc' = "up_loop"
    /\ UNCHANGED <<env, call, rows, result, touched, zs_page_id, ptr, nrecords,
                   firstptr, lastptr, values, polled, metaSnap, liveAtEmit>>

\* The loop body starts with CHECK_FOR_INTERRUPTS, before the page is read.
up_LoopBody_NoPoll == "up_read"

up_LoopBody == "up_poll"

\* while (blkno != InvalidBlockNumber)
up_LoopTest ==
    /\ pc = "up_loop"
    /\ pc' = IF blkno # InvalidBlockNumber THEN up_LoopBody ELSE "up_finish"
    /\ UNCHANGED <<env, call, held, rows, result, touched, locals, ghosts>>

up_Poll(cancel) ==
    /\ pc = "up_poll"
    /\ CheckForInterrupts(cancel, "up_read")
    /\ UNCHANGED <<env, call, rows, touched, locals,
                   tagChecked, earlyRead, metaSnap, liveAtEmit>>

up_ReadBuffer ==
    /\ pc = "up_read"
    /\ IF ReadBufferFails(blkno)
       THEN /\ Raise("block number out of range")
            /\ UNCHANGED <<touched, polled, tagChecked>>
       ELSE /\ touched' = touched \cup {blkno}
            /\ polled' = 0
            /\ tagChecked' = FALSE
            /\ pc' = "up_lock"
            /\ UNCHANGED <<result, held>>
    /\ UNCHANGED <<env, call, rows, locals, earlyRead, metaSnap, liveAtEmit>>

up_LockBuffer ==
    /\ pc = "up_lock"
    /\ LockGranted(blkno, up_LockMode)
    /\ held' = held \cup {<<blkno, up_LockMode>>}
    /\ pc' = "up_tag"
    /\ UNCHANGED <<env, call, rows, result, touched, locals, ghosts>>

\* opaque->zs_page_id != ZS_UNDO_PAGE_ID
up_TagMismatch_Unchecked(page) == FALSE

up_TagMismatch(page) == page.tag # ZS_UNDO_PAGE_ID

\* if (opaque->zs_page_id != ZS_UNDO_PAGE_ID) { elog(WARNING, ...); break; }
\* The break leaves the loop with the page still locked.
up_CheckTag ==
    /\ pc = "up_tag"
    /\ tagChecked' = TRUE
    /\ IF up_TagMismatch(rel[blkno])
       THEN /\ pc' = "up_finish"
            /\ result' = [kind |-> "warning", val |-> blkno]
            /\ UNCHANGED <<ptr, nrecords, firstptr, lastptr>>
       ELSE /\ pc' = "up_rec"
            /\ ptr' = 0
            /\ nrecords' = 0
            /\ firstptr' = 0
            /\ lastptr' = 0
            /\ UNCHANGED result
    /\ UNCHANGED <<env, call, held, rows, touched, blkno, zs_page_id, values,
                   earlyRead, polled, metaSnap, liveAtEmit>>

\* One pass of: while (ptr < endptr) { lastptr = ...; nrecords++; ptr += size }
\* if (nrecords == 0) firstptr = lastptr;
up_FirstPtr_Always(n, first, last) == last

up_FirstPtr(n, first, last) == IF n = 0 THEN last ELSE first

\* nrecords++ on an int, which wraps around (the backend is built with
\* -fwrapv); the int is NRecordsWidth bits wide here.
NRecordsWidth == 3

up_CountRecord(n) == (n + 1) % (2 ^ NRecordsWidth)

up_RecLoop ==
    /\ pc = "up_rec"
    /\ earlyRead' = (earlyRead \/ ~tagChecked)
    /\ IF ptr < pd_lower(rel[blkno])
       THEN LET undorec == RecAt(rel[blkno], ptr) IN
            /\ lastptr' = undorec.counter
            /\ firstptr' = up_FirstPtr(nrecords, firstptr, undorec.counter)
            /\ nrecords' = up_CountRecord(nrecords)
            /\ ptr' = ptr + undorec.size
            /\ UNCHANGED pc
       ELSE /\ pc' = "up_emit"
            /\ UNCHANGED <<ptr, nrecords, firstptr, lastptr>>
    /\ UNCHANGED <<env, call, held, rows, result, touched, blkno, zs_page_id,
                   values, tagChecked, polled, metaSnap, liveAtEmit>>

\* values[..]; blkno = opaque->next; UnlockReleaseBuffer(buf); tuplestore_putvalues
up_Emit ==
    /\ pc = "up_emit"
    /\ Len(rows) < MaxRows
    /\ earlyRead' = (earlyRead \/ ~tagChecked)
    /\ rows' = Append(rows, [blkno |-> blkno, nrecords |-> nrecords,
                             freespace |-> PageGetExactFreeSpace(rel[blkno]),
                             firstrecptr |-> firstptr, lastrecptr |-> lastptr])
    /\ liveAtEmit' = Append(liveAtEmit, InChain(rel, blkno))
    /\ blkno' = rel[blkno].next
    /\ held' = held \ {<<blkno, up_LockMode>>}
    /\ pc' = "up_loop"
    /\ UNCHANGED <<env, call, result, touched, zs_page_id, ptr, nrecords,
                   firstptr, lastptr, values, tagChecked, polled, metaSnap>>

\* tuplestore_donestoring; table_close; return
up_Finish ==
    /\ pc = "up_finish"
    /\ pc' = "done"
    /\ result' = [kind |-> IF result.kind = "warning" THEN "set_warned" ELSE "set",
                  val |-> rows]
    /\ UNCHANGED <<env, call, held, rows, touched, locals, ghosts>>


(***************************************************************************)
(* pg_zs_toast_pages                                                       *)
(***************************************************************************)
tp_LockMode == "EXCLUSIVE"

\* nblocks = RelationGetNumberOfBlocks(rel); blkno = 1
tp_Start ==
    /\ pc = "tp_start"
    /\ blkno' = 1
    /\ pc' = "tp_loop"
    /\ UNCHANGED <<env, call, held, rows, result, touched, zs_page_id, ptr,
                   nrecords, firstptr, lastptr, values, ghosts>>

tp_LoopTest ==
    /\ pc = "tp_loop"
    /\ pc' = IF blkno < NBlocks THEN "tp_poll" ELSE "tp_finish"
    /\ UNCHANGED <<env, call, held, rows, result, touched, locals, ghosts>>

tp_Poll(cancel) ==
    /\ pc = "tp_poll"
    /\ CheckForInterrupts(cancel, "tp_read")
    /\ UNCHANGED <<env, call, rows, touched, locals,
                   tagChecked, earlyRead, metaSnap, liveAtEmit>>

tp_ReadBuffer ==
    /\ pc = "tp_read"
    /\ touched' = touched \cup {blkno}
    /\ polled' = 0
    /\ tagChecked' = FALSE
    /\ pc' = "tp_lock"
    /\ UNCHANGED <<env, call, held, rows, result, locals,
                   earlyRead, metaSnap, liveAtEmit>>

tp_LockBuffer ==
    /\ pc = "tp_lock"
    /\ LockGranted(blkno, tp_LockMode)
    /\ held' = held \cup {<<blkno, tp_LockMode>>}
    /\ pc' = "tp_page"
    /\ UNCHANGED <<env, call, rows, result, touched, locals, ghosts>>

tp_Row(b, page) ==
    [blkno |-> b,
     tid |-> IF page.tid # 0 THEN page.tid ELSE 0,
     total_size |-> IF page.tid # 0 THEN page.total_size ELSE 0,
     slice_offset |-> page.slice_offset,
     prev |-> page.prev, next |-> page.next,
     decompressed_size |-> page.decompressed_size,
     is_compressed |-> page.is_compressed]

\* The body of the loop under the page lock; every path unlocks the page.
tp_Page ==
    /\ pc = "tp_page"
    /\ IF rel[blkno].specialsz # "ZSToastPageOpaque"
       THEN UNCHANGED <<rows, tagChecked, earlyRead>>
       ELSE /\ tagChecked' = TRUE
            /\ IF rel[blkno].tag # ZS_TOAST_PAGE_ID
               THEN UNCHANGED <<rows, earlyRead>>
               ELSE /\ Len(rows) < MaxRows
                    /\ rows' = Append(rows, tp_Row(blkno, rel[blkno]))
                    /\ UNCHANGED earlyRead
    /\ held' = held \ {<<blkno, tp_LockMode>>}
    /\ blkno' = blkno + 1
    /\ pc' = "tp_loop"
    /\ UNCHANGED <<env, call, result, touched, zs_page_id, ptr, nrecords,
                   firstptr, lastptr, values, polled, metaSnap, liveAtEmit>>

tp_Finish ==
    /\ pc = "tp_finish"
    /\ pc' = "done"
    /\ result' = [kind |-> "set", val |-> rows]
    /\ UNCHANGED <<env, call, held, rows, touched, locals, ghosts>>

(***************************************************************************)
(* pg_zs_btree_pages                                                       *)
(***************************************************************************)
bp_LockMode == "EXCLUSIVE"
SizeOfZSAttStreamHeader == 1

\* The streams of an attribute leaf: the lower one, then the upper one, each
\* present when its area is larger than a stream header.
LeafStreams(page) ==
    (IF SumSeq(StreamSizes(page.lower)) > SizeOfZSAttStreamHeader
     THEN page.lower ELSE << >>)
    \o (IF SumSeq(StreamSizes(page.upper)) > SizeOfZSAttStreamHeader
        THEN page.upper ELSE << >>)

\* if (t_flags & ATTSTREAM_COMPRESSED) uncompressedsz += t_decompressed_size;
\* else uncompressedsz += t_size;
bp_Uncompressed_Decoded(stream) == stream.t_decompressed_size

bp_Uncompressed(stream) ==
    IF stream.compressed THEN stream.t_decompressed_size ELSE stream.t_size

RECURSIVE bp_StreamStats(_, _)
bp_StreamStats(streams, acc) ==
    IF streams = << >> THEN acc
    ELSE LET stream == Head(streams) IN
         bp_StreamStats(Tail(streams),
            [nitems |-> acc.nitems + 1,
             ncompressed |-> acc.ncompressed + (IF stream.compressed THEN 1 ELSE 0),
             totalsz |-> acc.totalsz + stream.t_size,
             uncompressedsz |-> acc.uncompressedsz +
                 bp_Uncompressed(stream)])

ZeroStats == [nitems |-> 0, ncompressed |-> 0, totalsz |-> 0, uncompressedsz |-> 0]

bp_Stats(page) ==
    IF page.level = 0
    THEN IF page.attno = ZS_META_ATTRIBUTE_NUM
         THEN [nitems |-> Len(page.items), ncompressed |-> 0,
               totalsz |-> SumSeq(page.items), uncompressedsz |-> SumSeq(page.items)]
         ELSE bp_StreamStats(LeafStreams(page), ZeroStats)
    ELSE [ZeroStats EXCEPT !.nitems = page.ninternal]

bp_Row(b, page) ==
    LET st == bp_Stats(page) IN
    [blkno |-> b, nextblk |-> page.next, attno |-> page.attno, level |-> page.level,
     lokey |-> page.lokey, hikey |-> page.hikey, nitems |-> st.nitems,
     ncompressed |-> IF page.level = 0 THEN st.ncompressed ELSE 0,
     totalsz |-> IF page.level = 0 THEN st.totalsz ELSE 0,
     uncompressedsz |-> IF page.level = 0 THEN st.uncompressedsz ELSE 0,
     nulls |-> IF page.level = 0 THEN {}
               ELSE {"ncompressed", "totalsz", "uncompressedsz"},
     freespace |-> PageGetExactFreeSpace(page)]

bp_Start ==
    /\ pc = "bp_start"
    /\ blkno' = 1
    /\ pc' = "bp_loop"
    /\ UNCHANGED <<env, call, held, rows, result, touched, zs_page_id, ptr,
                   nrecords, firstptr, lastptr, values, ghosts>>

bp_LoopTest ==
    /\ pc = "bp_loop"
    /\ pc' = IF blkno < NBlocks THEN "bp_poll" ELSE "bp_finish"
    /\ UNCHANGED <<env, call, held, rows, result, touched, locals, ghosts>>

bp_Poll(cancel) ==
    /\ pc = "bp_poll"
    /\ CheckForInterrupts(cancel, "bp_read")
    /\ UNCHANGED <<env, call, rows, touched, locals,
                   tagChecked, earlyRead, metaSnap, liveAtEmit>>

bp_ReadBuffer ==
    /\ pc = "bp_read"
    /\ touched' = touched \cup {blkno}
    /\ polled' = 0
    /\ tagChecked' = FALSE
    /\ pc' = "bp_lock"
    /\ UNCHANGED <<env, call, held, rows, result, locals,
                   earlyRead, metaSnap, liveAtEmit>>

bp_LockBuffer ==
    /\ pc = "bp_lock"
    /\ LockGranted(blkno, bp_LockMode)
    /\ held' = held \cup {<<blkno, bp_LockMode>>}
    /\ pc' = "bp_page"
    /\ UNCHANGED <<env, call, rows, result, touched, locals, ghosts>>

\* if (opaque->zs_page_id != ZS_BTREE_PAGE_ID) { UnlockReleaseBuffer; continue; }
bp_TagMismatch_Unchecked(page) == FALSE

bp_TagMismatch(page) == page.tag # ZS_BTREE_PAGE_ID

bp_Page ==
    /\ pc = "bp_page"
    /\ IF rel[blkno].specialsz # "ZSBtreePageOpaque"
       THEN UNCHANGED <<rows, tagChecked, earlyRead>>
       ELSE /\ tagChecked' = TRUE
            /\ IF bp_TagMismatch(rel[blkno])
               THEN UNCHANGED <<rows, earlyRead>>
               ELSE /\ Len(rows) < MaxRows
                    /\ rows' = Append(rows, bp_Row(blkno, rel[blkno]))
                    /\ UNCHANGED earlyRead
    /\ held' = held \ {<<blkno, bp_LockMode>>}
    /\ blkno' = blkno + 1
    /\ pc' = "bp_loop"
    /\ UNCHANGED <<env, call, result, touched, zs_page_id, ptr, nrecords,
                   firstptr, lastptr, values, polled, metaSnap, liveAtEmit>>

bp_Finish ==
    /\ pc = "bp_finish"
    /\ pc' = "done"
    /\ result' = [kind |-> "set", val |-> rows]
    /\ UNCHANGED <<env, call, held, rows, touched, locals, ghosts>>


(***************************************************************************)
(* pg_zs_dump_attstreams                                                   *)
(***************************************************************************)
da_LockMode == "EXCLUSIVE"

da_Poll(cancel) ==
    /\ pc = "da_poll"
    /\ CheckForInterrupts(cancel, "da_read")
    /\ UNCHANGED <<env, call, rows, touched, locals,
                   tagChecked, earlyRead, metaSnap, liveAtEmit>>

da_ReadBuffer ==
    /\ pc = "da_read"
    /\ IF ReadBufferFails(blkno)
       THEN /\ Raise("block number out of range")
            /\ UNCHANGED <<touched, polled, tagChecked>>
       ELSE /\ touched' = touched \cup {blkno}
            /\ polled' = 0
            /\ tagChecked' = FALSE
            /\ pc' = "da_lock"
            /\ UNCHANGED <<result, held>>
    /\ UNCHANGED <<env, call, rows, locals, earlyRead, metaSnap, liveAtEmit>>

da_LockBuffer ==
    /\ pc = "da_lock"
    /\ LockGranted(blkno, da_LockMode)
    /\ held' = held \cup {<<blkno, da_LockMode>>}
    /\ pc' = "da_page"
    /\ UNCHANGED <<env, call, rows, result, touched, locals, ghosts>>

\* One row per chunk of the stream (the decoder yields the stream's chunks).
da_ChunkRows(page, stream, isupper) ==
    [c \in 1 .. stream.nchunks |->
        [attno |-> page.attno, chunkno |-> c - 1, upperstream |-> isupper,
         compressed |-> stream.compressed]]

\* upperstream is only assigned when the page has an upper stream; otherwise
\* the comparison (upperstream == i) reads an uninitialized variable (uninit).
da_Rows(page, uninit) ==
    LET haslower == SumSeq(StreamSizes(page.lower)) > SizeOfZSAttStreamHeader
        hasupper == SumSeq(StreamSizes(page.upper)) > SizeOfZSAttStreamHeader
    IN  (IF haslower
         THEN da_ChunkRows(page, page.lower[1], IF hasupper THEN FALSE ELSE uninit)
         ELSE << >>)
        \o (IF hasupper THEN da_ChunkRows(page, page.upper[1], TRUE) ELSE << >>)

\* The page under its lock.  Not a leaf of an attribute B-tree: unlock, return
\* NULL.  Otherwise emit the chunk rows, unlock, destroy the decoder: with no
\* stream on the page the decoder was never initialized, and destroying it
\* either returns or crashes the backend (crash).
da_Page(uninit, crash) ==
    /\ pc = "da_page"
    /\ held' = held \ {<<blkno, da_LockMode>>}
    /\ IF rel[blkno].specialsz # "ZSBtreePageOpaque"
       THEN /\ pc' = "done"
            /\ result' = [kind |-> "null", val |-> << >>]
            /\ UNCHANGED <<rows, tagChecked>>
       ELSE /\ tagChecked' = TRUE
            /\ IF \/ rel[blkno].tag # ZS_BTREE_PAGE_ID
                  \/ rel[blkno].attno = ZS_META_ATTRIBUTE_NUM
                  \/ rel[blkno].level # 0
               THEN /\ pc' = "done"
                    /\ result' = [kind |-> "null", val |-> << >>]
                    /\ UNCHANGED rows
               ELSE /\ rows' = rows \o da_Rows(rel[blkno], uninit)
                    /\ IF LeafStreams(rel[blkno]) = << >> /\ crash
                       THEN /\ pc' = "crashed"
                            /\ result' = [kind |-> "crash", val |-> << >>]
                       ELSE /\ pc' = "done"
                            /\ result' = [kind |-> "set", val |-> rows']
    /\ UNCHANGED <<env, call, touched, locals, earlyRead, polled, metaSnap,
                   liveAtEmit>>

(***************************************************************************)
(* pg_zs_meta_page                                                         *)
(***************************************************************************)
mp_LockMode == "EXCLUSIVE"
mp_NumColumns == 9

mp_Poll(cancel) ==
    /\ pc = "mp_poll"
    /\ CheckForInterrupts(cancel, "open")
    /\ UNCHANGED <<env, call, rows, touched, locals,
                   tagChecked, earlyRead, metaSnap, liveAtEmit>>

mp_ReadBuffer ==
    /\ pc = "mp_read"
    /\ touched' = touched \cup {ZS_META_BLK}
    /\ tagChecked' = FALSE
    /\ pc' = "mp_lock"
    /\ UNCHANGED <<env, call, held, rows, result, locals,
                   earlyRead, polled, metaSnap, liveAtEmit>>

\* The locks held once LockBuffer(buf, BUFFER_LOCK_EXCLUSIVE) has returned.
mp_Locked_NotTaken(h) == h

mp_Locked(h) == h \cup {<<ZS_META_BLK, mp_LockMode>>}

mp_LockBuffer ==
    /\ pc = "mp_lock"
    /\ LockGranted(ZS_META_BLK, mp_LockMode)
    /\ held' = mp_Locked(held)
    /\ metaSnap' = rel[ZS_META_BLK]
    /\ pc' = "mp_check"
    /\ UNCHANGED <<env, call, rows, result, touched, locals,
                   tagChecked, earlyRead, polled, liveAtEmit>>

\* Trailer size, then tag; each failure unlocks the page and raises an error.
mp_Check ==
    /\ pc = "mp_check"
    /\ IF rel[ZS_META_BLK].specialsz # "ZSMetaPageOpaque"
       THEN /\ pc' = "error"
            /\ result' = ErrorResult("Bad page special size")
            /\ held' = AbortCleanup(held \ {<<ZS_META_BLK, mp_LockMode>>})
            /\ UNCHANGED <<values, tagChecked>>
       ELSE /\ tagChecked' = TRUE
            /\ IF rel[ZS_META_BLK].tag # ZS_META_PAGE_ID
               THEN /\ pc' = "error"
                    /\ result' = ErrorResult("The zs_page_id does not match ZS_META_PAGE_ID")
                    /\ held' = AbortCleanup(held \ {<<ZS_META_BLK, mp_LockMode>>})
                    /\ UNCHANGED values
               ELSE /\ pc' = "mp_values"
                    /\ values' = <<ZS_META_BLK>>
                    /\ UNCHANGED <<result, held>>
    /\ UNCHANGED <<env, call, rows, touched, blkno, zs_page_id, ptr, nrecords,
                   firstptr, lastptr, earlyRead, polled, metaSnap, liveAtEmit>>

\* Column i (0-based, as values[i]) of the result row, from the metapage trailer.
mp_Column(page, i) ==
    CASE i = 1 -> page.undo_head
      [] i = 2 -> page.undo_tail
      [] i = 3 -> page.undo_tail_first_counter
      [] i = 4 -> page.oldest_counter
      [] i = 5 -> page.oldest_blkno
      [] i = 6 -> page.oldest_offset
      [] i = 7 -> page.fpm_head
      [] i = 8 -> page.flags

\* values[i] = opaque-><field>, one column per step, in the order of the code.
mp_Value ==
    /\ pc = "mp_values"
    /\ Len(values) < mp_NumColumns
    /\ earlyRead' = (earlyRead \/ ~tagChecked)
    /\ values' = Append(values, mp_Column(rel[ZS_META_BLK], Len(values)))
    /\ UNCHANGED <<env, call, pc, held, rows, result, touched, blkno, zs_page_id,
                   ptr, nrecords, firstptr, lastptr, tagChecked, polled,
                   metaSnap, liveAtEmit>>

\* UnlockReleaseBuffer; table_close; heap_form_tuple; return
mp_Return ==
    /\ pc = "mp_values"
    /\ Len(values) = mp_NumColumns
    /\ held' = held \ {<<ZS_META_BLK, mp_LockMode>>}
    /\ result' = [kind |-> "row", val |-> values]
    /\ pc' = "done"
    /\ UNCHANGED <<env, call, rows, touched, locals, ghosts>>

(***************************************************************************)
(* The inspecting backend and a concurrent reader on a static relation.    *)
(***************************************************************************)
Interrupts == BOOLEAN

Next ==
    \/ \E f \in Functions, su \in BOOLEAN, temp \in BOOLEAN, ctxok \in BOOLEAN,
          pageno \in 0 .. NBlocks : Call(f, su, temp, ctxok, pageno)
    \/ Open
    \/ Finish
    \/ \E b \in Blocks : ReaderLock(b)
    \/ ReaderUnlock
    \/ pt_ReadBuffer
    \/ pt_LockBuffer
    \/ pt_ReadTag
    \/ pt_Switch
    \/ up_MetaReadBuffer
    \/ up_MetaLockBuffer
    \/ up_MetaGetHead
    \/ up_LoopTest
    \/ \E cancel \in Interrupts : up_Poll(cancel)
    \/ up_ReadBuffer
    \/ up_LockBuffer
    \/ up_CheckTag
    \/ up_RecLoop
    \/ up_Emit
    \/ up_Finish
    \/ tp_Start
    \/ tp_LoopTest
    \/ \E cancel \in Interrupts : tp_Poll(cancel)
    \/ tp_ReadBuffer
    \/ tp_LockBuffer
    \/ tp_Page
    \/ tp_Finish
    \/ \E cancel \in Interrupts : da_Poll(cancel)
    \/ da_ReadBuffer
    \/ da_LockBuffer
    \/ \E uninit \in BOOLEAN, crash \in BOOLEAN : da_Page(uninit, crash)
    \/ bp_Start
    \/ bp_LoopTest
    \/ \E cancel \in Interrupts : bp_Poll(cancel)
    \/ bp_ReadBuffer
    \/ bp_LockBuffer
    \/ bp_Page
    \/ bp_Finish
    \/ \E cancel \in Interrupts : mp_Poll(cancel)
    \/ mp_ReadBuffer
    \/ mp_LockBuffer
    \/ mp_Check
    \/ mp_Value
    \/ mp_Return

Spec == Init /\ [][Next]_vars

TypeOK ==
    /\ pc \in {"idle", "open", "done", "error", "crashed",
               "pt_read", "pt_lock", "pt_page", "pt_switch",
               "up_meta_read", "up_meta_lock", "up_meta_head", "up_loop", "up_poll",
               "up_read", "up_lock", "up_tag", "up_rec", "up_emit", "up_finish",
               "tp_start", "tp_loop", "tp_poll", "tp_read", "tp_lock", "tp_page",
               "tp_finish", "da_poll", "da_read", "da_lock", "da_page",
               "bp_start", "bp_loop", "bp_poll", "bp_read", "bp_lock", "bp_page",
               "bp_finish", "mp_poll", "mp_read", "mp_lock", "mp_check", "mp_values"}
    /\ fn \in Functions \cup {"none"}
    /\ held \subseteq (Blocks \X {"SHARE", "EXCLUSIVE"})
    /\ touched \subseteq Blocks
    /\ Len(rows) <= MaxRows


(***************************************************************************)
(* pg_zs_page_type as a function of the tag: every 16-bit tag is an input. *)
(***************************************************************************)
EmptyRelation ==
    [b \in Blocks |->
        IF b = ZS_META_BLK
        THEN [MetaPage(InvalidBlockNumber, InvalidBlockNumber) EXCEPT !.fpm_head = 1]
        ELSE FreePage(IF b + 1 \in Blocks THEN b + 1 ELSE InvalidBlockNumber)]

InitPageType ==
    /\ rel = EmptyRelation
    /\ reader = InvalidBlockNumber
    /\ counter = 0
    /\ pc = "pt_switch"
    /\ fn = "pg_zs_page_type"
    /\ caller = [superuser |-> TRUE, othertemp |-> FALSE]
    /\ decoder = NoDecoder
    /\ held = {}
    /\ rows = << >>
    /\ result = NoResult
    /\ touched = {1}
    /\ blkno = 1
    /\ zs_page_id \in AllTags
    /\ ptr = 0
    /\ nrecords = 0
    /\ firstptr = 0
    /\ lastptr = 0
    /\ values = << >>
    /\ tagChecked = TRUE
    /\ earlyRead = FALSE
    /\ polled = 0
    /\ metaSnap = BlankPage
    /\ liveAtEmit = << >>

NextPageType == pt_Switch

SpecPageType == InitPageType /\ [][NextPageType]_vars

(***************************************************************************)
(* The undo log writers (zedstore_undolog.c is not part of the inspected   *)
(* file: modelled from the specification of the undo log).  Each operation *)
(* is atomic and needs the pages it changes free of other backends' locks. *)
(***************************************************************************)
Unlocked(b) == reader # b /\ \A l \in held : l[1] # b

\* append_record: at the tail page; a full (or missing) tail is sealed and a
\* page from the free-page list becomes the new tail, holding the record.
zsundo_append ==
    LET m == rel[ZS_META_BLK]
        tail == m.undo_tail
        c == counter + 1
    IN  /\ counter < MaxCounter
        /\ counter' = c
        /\ IF tail # InvalidBlockNumber /\ Len(rel[tail].recs) < MaxRecs
           THEN /\ Unlocked(tail)
                /\ rel' = [rel EXCEPT ![tail].recs = Append(@, UndoRec(tail, c, 1))]
           ELSE LET f == m.fpm_head IN
                /\ f # InvalidBlockNumber
                /\ Unlocked(ZS_META_BLK)
                /\ Unlocked(f)
                /\ tail # InvalidBlockNumber => Unlocked(tail)
                /\ rel' = [b \in Blocks |->
                      IF b = ZS_META_BLK
                      THEN [m EXCEPT !.undo_tail = f,
                                     !.undo_tail_first_counter = c,
                                     !.undo_head = IF m.undo_head = InvalidBlockNumber
                                                   THEN f ELSE m.undo_head,
                                     !.fpm_head = rel[f].next]
                      ELSE IF b = f
                      THEN UndoPage(InvalidBlockNumber, <<UndoRec(f, c, 1)>>)
                      ELSE IF b = tail
                      THEN [rel[b] EXCEPT !.next = f]
                      ELSE rel[b]]
        /\ UNCHANGED <<reader, pc, call, held, rows, result, touched, locals, ghosts>>

\* Where the record with counter w lives: <<page, offset>>, or no place.
RecordPlace(r, w) ==
    LET places == {<<b, i>> \in DataBlocks \X (1 .. MaxRecs) :
                      /\ InChain(r, b)
                      /\ i <= Len(r[b].recs)
                      /\ r[b].recs[i].counter = w}
    IN  IF places = {} THEN <<InvalidBlockNumber, 0>>
        ELSE LET pl == CHOOSE x \in places : TRUE
             IN  <<pl[1], SumSizes(r[pl[1]].recs, pl[2] - 1)>>

\* advance_oldest_retained: the three components of the pointer move together.
zsundo_advance_oldest(w) ==
    /\ w > rel[ZS_META_BLK].oldest_counter
    /\ w <= counter + 1
    /\ Unlocked(ZS_META_BLK)
    /\ rel' = [rel EXCEPT ![ZS_META_BLK].oldest_counter = w,
                          ![ZS_META_BLK].oldest_blkno = RecordPlace(rel, w)[1],
                          ![ZS_META_BLK].oldest_offset = RecordPlace(rel, w)[2]]
    /\ UNCHANGED <<reader, counter, pc, call, held, rows, result, touched, locals,
                   ghosts>>

\* Truncation: the head page, all of whose records are below the watermark, is
\* unlinked from the head and put on the free-page list.
zsundo_trim_head ==
    LET m == rel[ZS_META_BLK]
        h == m.undo_head
    IN  /\ h # InvalidBlockNumber
        /\ \A i \in 1 .. Len(rel[h].recs) : rel[h].recs[i].counter < m.oldest_counter
        /\ Unlocked(ZS_META_BLK)
        /\ Unlocked(h)
        /\ rel' = [b \in Blocks |->
              IF b = ZS_META_BLK
              THEN [m EXCEPT !.undo_head = rel[h].next,
                             !.undo_tail = IF m.undo_tail = h
                                           THEN InvalidBlockNumber ELSE m.undo_tail,
                             !.fpm_head = h]
              ELSE IF b = h THEN FreePage(m.fpm_head)
              ELSE rel[b]]
        /\ UNCHANGED <<reader, counter, pc, call, held, rows, result, touched,
                       locals, ghosts>>

InitUndoLog ==
    /\ rel = EmptyRelation
    /\ reader = InvalidBlockNumber
    /\ counter = 0
    /\ IdleBackend

NextUndoLog ==
    \/ zsundo_append
    \/ \E w \in 1 .. (MaxCounter + 1) : zsundo_advance_oldest(w)
    \/ zsundo_trim_head
    \/ \E f \in {"pg_zs_undo_pages", "pg_zs_meta_page"}, su \in BOOLEAN,
          temp \in BOOLEAN, ctxok \in BOOLEAN : Call(f, su, temp, ctxok, 0)
    \/ Open
    \/ Finish
    \/ up_MetaReadBuffer
    \/ up_MetaLockBuffer
    \/ up_MetaGetHead
    \/ up_LoopTest
    \/ \E cancel \in Interrupts : up_Poll(cancel)
    \/ up_ReadBuffer
    \/ up_LockBuffer
    \/ up_CheckTag
    \/ up_RecLoop
    \/ up_Emit
    \/ up_Finish
    \/ \E cancel \in Interrupts : mp_Poll(cancel)
    \/ mp_ReadBuffer
    \/ mp_LockBuffer
    \/ mp_Check
    \/ mp_Value
    \/ mp_Return

SpecUndoLog == InitUndoLog /\ [][NextUndoLog]_vars

(***************************************************************************)
(* The undo walk on arbitrary record contents: undo pages whose records    *)
(* carry any size field (0 included), chains of any shape.  One backend    *)
(* calls pg_zs_undo_pages, nobody else locks pages, no cancel request is   *)
(* ever pending; the backend keeps running (weak fairness of its steps).   *)
(***************************************************************************)
RecordSizes == 0 .. 2

WalkRecs(b) ==
    UNION {{[i \in 1 .. k |-> UndoRec(b, 10 * b + i, sz[i])] :
               sz \in [1 .. k -> RecordSizes]} : k \in 0 .. MaxRecs}

WalkPages(b) ==
    {UndoPage(n, rs) : n \in {InvalidBlockNumber} \cup (DataBlocks \ {b}),
                       rs \in WalkRecs(b)}
    \cup {FreePage(InvalidBlockNumber)}

WalkRelations ==
    {r \in [Blocks -> UNION {WalkPages(b) : b \in DataBlocks}
                        \cup {MetaPage(h, h) : h \in {InvalidBlockNumber} \cup DataBlocks}] :
        /\ r[ZS_META_BLK].tag = ZS_META_PAGE_ID
        /\ \A b \in DataBlocks : r[b] \in WalkPages(b)}

InitUndoWalk ==
    /\ rel \in WalkRelations
    /\ reader = InvalidBlockNumber
    /\ counter = 0
    /\ IdleBackend

NextUndoWalk ==
    \/ Call("pg_zs_undo_pages", TRUE, FALSE, TRUE, InvalidBlockNumber)
    \/ Open
    \/ Finish
    \/ up_MetaReadBuffer
    \/ up_MetaLockBuffer
    \/ up_MetaGetHead
    \/ up_LoopTest
    \/ up_Poll(FALSE)
    \/ up_ReadBuffer
    \/ up_LockBuffer
    \/ up_CheckTag
    \/ up_RecLoop
    \/ up_Emit
    \/ up_Finish

SpecUndoWalk == InitUndoWalk /\ [][NextUndoWalk]_vars /\ WF_vars(NextUndoWalk)

(***************************************************************************)
(* pg_zs_decode_chunk(attbyval, attlen, prevtid, lasttid, chunk): wraps    *)
(* the chunk in a stream header and runs the stream decoder over it.  The  *)
(* function opens no relation, and tests neither superuser() nor the       *)
(* relation.  The decoder is part of the codec; what it yields for a chunk *)
(* is drawn here from the codec's contract: no chunk, or one to MaxElems   *)
(* elements with strictly increasing row ids, a null flag each, and the    *)
(* stored bytes of each non-null value.                                    *)
(***************************************************************************)
MaxElems == 2
MaxTid == 3
DatumWidth == 2

Bytes == {1, 2}
ByteSeqs == UNION {[1 .. k -> Bytes] : k \in 0 .. DatumWidth}

\* int16 attlen: fixed lengths, -1 for a varlena, and 0, which no type has
\* but the SQL signature accepts.
AttLens == {-1, 0} \cup (1 .. DatumWidth)

\* What a Datum of a non-null element holds or points to: a by-value Datum
\* is DatumWidth bytes wide, a fixed-length by-reference one points to attlen
\* bytes, any other to a varlena of any length.
StoredValues(attbyval, attlen) ==
    IF attlen > 0
    THEN {q \in ByteSeqs : Len(q) = (IF attbyval THEN DatumWidth ELSE attlen)}
    ELSE ByteSeqs

Increasing(q) == \A i \in 1 .. (Len(q) - 1) : q[i] < q[i + 1]

DecodedChunks(attbyval, attlen) ==
    UNION {{[chunk |-> TRUE, num_elements |-> n, tids |-> t, datums |-> d,
             isnulls |-> z] :
               t \in {q \in [1 .. n -> 1 .. MaxTid] : Increasing(q)},
               z \in [1 .. n -> BOOLEAN],
               d \in [1 .. n -> StoredValues(attbyval, attlen)]} :
           n \in 1 .. MaxElems}

NoChunk ==
    [chunk |-> FALSE, num_elements |-> 0, tids |-> << >>, datums |-> << >>,
     isnulls |-> << >>]

\* Entry up to init_attstream_decoder / decode_attstream_begin.
dc_Call(su, rowtype, attbyval, attlen) ==
    /\ pc = "idle"
    /\ fn' = "pg_zs_decode_chunk"
    /\ caller' = [superuser |-> su, othertemp |-> FALSE]
    /\ IF ~rowtype
       THEN /\ Raise("return type must be a row type")
            /\ UNCHANGED decoder
       ELSE /\ decoder' = [NoDecoder EXCEPT !.attbyval = attbyval, !.attlen = attlen]
            /\ pc' = "dc_cont"
            /\ UNCHANGED <<result, held>>
    /\ UNCHANGED <<env, rows, touched, locals, ghosts>>

\* if (!decode_attstream_cont(&decoder)) PG_RETURN_NULL();
dc_Decoded(d) ==
    /\ decoder' = [attbyval |-> decoder.attbyval, attlen |-> decoder.attlen,
                   chunk |-> d.chunk, num_elements |-> d.num_elements,
                   tids |-> d.tids, datums |-> d.datums, isnulls |-> d.isnulls]
    /\ IF ~d.chunk
       THEN /\ pc' = "done"
            /\ result' = [kind |-> "null", val |-> << >>]
            /\ UNCHANGED values
       ELSE /\ pc' = "dc_elem"
            /\ values' = <<<< >>, << >>, << >>>>
            /\ UNCHANGED result
    /\ UNCHANGED <<env, fn, caller, held, rows, touched, blkno, zs_page_id, ptr,
                   nrecords, firstptr, lastptr, ghosts>>

dc_Cont ==
    /\ pc = "dc_cont"
    /\ \E d \in {NoChunk} \cup DecodedChunks(decoder.attbyval, decoder.attlen) :
          dc_Decoded(d)

\* Some branch of the if / else if chain assigns attr_data.
dc_AttrDataAssigned(attbyval, attlen) ==
    \/ attbyval /\ attlen > 0
    \/ ~attbyval /\ attlen > 0
    \/ attlen < 0

\* The bytea built from a non-null datum.
dc_AttrData(attbyval, attlen, datum) ==
    IF attlen > 0 THEN SubSeq(datum, 1, attlen) ELSE datum

\* What using the unassigned pointer attr_data can do: bring the backend
\* down, or yield whatever bytes it happens to point to.
UnassignedOutcomes ==
    {[crash |-> TRUE, data |-> << >>]}
    \cup {[crash |-> FALSE, data |-> q] : q \in ByteSeqs}

\* One pass of: for (i = 0; i < decoder.num_elements; i++) { ... }
dc_Accum(junk) ==
    /\ LET i == Len(values[1]) + 1
           assigned == dc_AttrDataAssigned(decoder.attbyval, decoder.attlen)
           entry == IF decoder.isnulls[i] THEN [isnull |-> TRUE, data |-> << >>]
                    ELSE IF assigned
                    THEN [isnull |-> FALSE,
                          data |-> dc_AttrData(decoder.attbyval, decoder.attlen,
                                               decoder.datums[i])]
                    ELSE [isnull |-> FALSE, data |-> junk.data]
       IN
       /\ (decoder.isnulls[i] \/ assigned) => junk.crash
       /\ IF ~decoder.isnulls[i] /\ ~assigned /\ junk.crash
          THEN /\ pc' = "crashed"
               /\ result' = [kind |-> "crash", val |-> << >>]
               /\ UNCHANGED values
          ELSE /\ values' = <<Append(values[1], decoder.tids[i]),
                              Append(values[2], entry),
                              Append(values[3], decoder.isnulls[i])>>
               /\ UNCHANGED <<pc, result>>
    /\ UNCHANGED <<env, call, held, rows, touched, blkno, zs_page_id, ptr,
                   nrecords, firstptr, lastptr, ghosts>>

dc_Elem ==
    /\ pc = "dc_elem"
    /\ Len(values[1]) < decoder.num_elements
    /\ \E junk \in UnassignedOutcomes : dc_Accum(junk)

\* values[0..3]; destroy_attstream_decoder; heap_form_tuple; return
dc_Return ==
    /\ pc = "dc_elem"
    /\ Len(values[1]) >= decoder.num_elements
    /\ result' = [kind |-> "row",
                  val |-> <<decoder.num_elements, values[1], values[2], values[3]>>]
    /\ pc' = "done"
    /\ UNCHANGED <<env, call, held, rows, touched, locals, ghosts>>

InitDecodeChunk ==
    /\ rel = EmptyRelation
    /\ reader = InvalidBlockNumber
    /\ counter = 0
    /\ IdleBackend

NextDecodeChunk ==
    \/ \E su, rowtype, attbyval \in BOOLEAN : \E attlen \in AttLens :
          dc_Call(su, rowtype, attbyval, attlen)
    \/ dc_Cont
    \/ dc_Elem
    \/ dc_Return
    \/ Finish

SpecDecodeChunk == InitDecodeChunk /\ [][NextDecodeChunk]_vars

(***************************************************************************)
(* pg_zs_btree_pages on leaves of every content: block 1 is a leaf of the  *)
(* meta attribute with any items, or an attribute leaf whose lower and     *)
(* upper areas are empty or hold a stream of any size, compressed or not,  *)
(* of one or two chunks.                                                   *)
(***************************************************************************)
MaxStreamSize == 3

StreamChoices ==
    {NoStream}
    \cup {<<[Stream(sz, z, IF z THEN sz + 2 ELSE 0) EXCEPT !.nchunks = n]>> :
             sz \in 1 .. MaxStreamSize, z \in BOOLEAN, n \in 1 .. 2}

LeafPages ==
    {[BtreePage(ZS_META_ATTRIBUTE_NUM, 0) EXCEPT !.items = q] :
        q \in UNION {[1 .. k -> 1 .. MaxStreamSize] : k \in 0 .. 2}}
    \cup {[BtreePage(1, 0) EXCEPT !.lower = l, !.upper = u] :
             l \in StreamChoices, u \in StreamChoices}

InitLeafStats ==
    /\ rel \in {[EmptyRelation EXCEPT ![1] = page] : page \in LeafPages}
    /\ reader = InvalidBlockNumber
    /\ counter = 0
    /\ IdleBackend

NextLeafStats ==
    \/ Call("pg_zs_btree_pages", TRUE, FALSE, TRUE, InvalidBlockNumber)
    \/ Open
    \/ bp_Start
    \/ bp_LoopTest
    \/ \E cancel \in Interrupts : bp_Poll(cancel)
    \/ bp_ReadBuffer
    \/ bp_LockBuffer
    \/ bp_Page
    \/ bp_Finish
    \/ Finish

SpecLeafStats == InitLeafStats /\ [][NextLeafStats]_vars

(***************************************************************************)
(* A session that goes on after a call has returned: the next call runs in *)
(* the same backend (same statement or same transaction).  Returning from  *)
(* a function releases no content lock: only UnlockReleaseBuffer and error *)
(* cleanup do.                                                             *)
(***************************************************************************)
Return ==
    /\ pc = "done"
    /\ pc' = "idle"
    /\ fn' = "none"
    /\ caller' = [superuser |-> TRUE, othertemp |-> FALSE]
    /\ decoder' = NoDecoder
    /\ rows' = << >>
    /\ result' = NoResult
    /\ touched' = {}
    /\ blkno' = InvalidBlockNumber
    /\ zs_page_id' = 0
    /\ ptr' = 0
    /\ nrecords' = 0
    /\ firstptr' = 0
    /\ lastptr' = 0
    /\ values' = << >>
    /\ tagChecked' = FALSE
    /\ earlyRead' = FALSE
    /\ polled' = 0
    /\ metaSnap' = BlankPage
    /\ liveAtEmit' = << >>
    /\ UNCHANGED <<rel, reader, counter, held>>

NextSession == Next \/ Return

SpecSession == Init /\ [][NextSession]_vars

(***************************************************************************)
(* Properties.                                                             *)
(***************************************************************************)
CallEnded == pc \in {"done", "error"}

\* C1: when an inspection call has ended (normal return, early return, loop
\* exit on a corrupt page, raised error), it holds no page lock any more.
C1_LocksReleasedAtExit == CallEnded => held = {}

\* C2: a call by a non-superuser, or on a temporary relation of another
\* session, never gets past its entry checks: it has read and locked no page,
\* and when it has ended it has ended in an error.
C2_RejectedBeforeAnyPage ==
    (fn # "none" /\ (~caller.superuser \/ caller.othertemp)) =>
        /\ touched = {}
        /\ held = {}
        /\ pc \in {"mp_poll", "open", "error"}
        /\ pc = "error" => result.kind = "error"

C2_Witness ==
    /\ pc = "error"
    /\ caller.superuser
    /\ caller.othertemp
    /\ fn = "pg_zs_undo_pages"
    /\ result.kind = "error"

\* C3: a call of pg_zs_undo_pages whose walk stopped on a page whose tag is
\* not UNDO does not return normally (with a result set): it ends in an error.
C3_BadTagAbortsWalk ==
    ~(/\ fn = "pg_zs_undo_pages"
      /\ pc = "done"
      /\ blkno \in Blocks
      /\ rel[blkno].tag # ZS_UNDO_PAGE_ID)

\* C4: no inspection function reads a field of a page's kind-specific trailer
\* (or anything the trailer's kind gives meaning to) before it has compared
\* the page's tag with the kind it expects.
C4_TagCheckedBeforeFields == ~earlyRead

PollPoints == {"up_poll", "tp_poll", "bp_poll"}
ScanReadPoints == {"up_read", "tp_read", "bp_read"}
Cancelled ==
    /\ pc = "error"
    /\ result.kind = "error"
    /\ result.val = "canceling statement due to user request"

C6_PollInv ==
    /\ pc \in PollPoints => (held = {} /\ polled = 0)
    /\ pc \in ScanReadPoints => polled = 1
    /\ (Cancelled /\ fn \in {"pg_zs_undo_pages", "pg_zs_toast_pages",
                             "pg_zs_btree_pages"}) => held = {}

\* C6: in the scans of pg_zs_undo_pages, pg_zs_toast_pages and pg_zs_btree_pages
\* a page is read after exactly one cancellation poll, no page lock is held at a
\* poll, a call cancelled at a poll ends holding no lock, and no page changes.
C6_PollBetweenPages == [](C6_PollInv) /\ [][rel' = rel]_vars

C6_Witness ==
    /\ Cancelled
    /\ fn = "pg_zs_undo_pages"
    /\ Len(rows) >= 1

LockWaits ==
    {<<"pt_lock", pt_LockMode>>, <<"up_meta_lock", up_MetaLockMode>>,
     <<"up_lock", up_LockMode>>, <<"tp_lock", tp_LockMode>>,
     <<"da_lock", da_LockMode>>, <<"bp_lock", bp_LockMode>>,
     <<"mp_lock", mp_LockMode>>}

LockTarget == IF pc \in {"up_meta_lock", "mp_lock"} THEN ZS_META_BLK ELSE blkno

BlockedByReader ==
    \E w \in LockWaits : pc = w[1] /\ ~LockGranted(LockTarget, w[2])

\* C7: every page lock an inspection function holds is a shared lock, and an
\* inspection call waiting for a page lock is never kept waiting by a
\* concurrent reader of that page.
C7_OnlySharedLocks ==
    /\ \A l \in held : l[2] = "SHARE"
    /\ ~BlockedByReader

Distinct(q) == \A i, j \in 1 .. Len(q) : i # j => q[i] # q[j]

WellFormedUndoChain(r) ==
    /\ r[ZS_META_BLK].tag = ZS_META_PAGE_ID
    /\ r[ZS_META_BLK].specialsz = "ZSMetaPageOpaque"
    /\ LET c == UndoChain(r) IN
       /\ Distinct(c)
       /\ IF c = << >> THEN r[ZS_META_BLK].undo_head = InvalidBlockNumber
          ELSE r[c[Len(c)]].next = InvalidBlockNumber

ExpectedUndoRow(r, b) ==
    LET rs == r[b].recs IN
    [blkno |-> b, nrecords |-> Len(rs),
     firstrecptr |-> IF rs = << >> THEN 0 ELSE rs[1].counter,
     lastrecptr |-> IF rs = << >> THEN 0 ELSE rs[Len(rs)].counter]

RowCore(row) ==
    [blkno |-> row.blkno, nrecords |-> row.nrecords,
     firstrecptr |-> row.firstrecptr, lastrecptr |-> row.lastrecptr]

\* C8: on a relation whose undo chain is well formed, pg_zs_undo_pages returns
\* one row per page of the chain, in chain order; each row carries the number
\* of records of its page and the counters of the first and of the last of
\* them (0 and 0 for a page without records).
C8_OneRowPerChainPage ==
    (fn = "pg_zs_undo_pages" /\ pc = "done" /\ WellFormedUndoChain(rel)) =>
        /\ result.kind = "set"
        /\ Len(rows) = Len(UndoChain(rel))
        /\ \A i \in 1 .. Len(rows) :
              RowCore(rows[i]) = ExpectedUndoRow(rel, UndoChain(rel)[i])

C8_Witness ==
    /\ fn = "pg_zs_undo_pages"
    /\ pc = "done"
    /\ WellFormedUndoChain(rel)
    /\ Len(rows) = 2
    /\ rows[1].nrecords = 2
    /\ rows[2].nrecords = 0


HexValue(d) == ((d[1] * 16 + d[2]) * 16 + d[3]) * 16 + d[4]

KindName(id) ==
    IF id = ZS_META_PAGE_ID THEN "META"
    ELSE IF id = ZS_BTREE_PAGE_ID THEN "BTREE"
    ELSE IF id = ZS_UNDO_PAGE_ID THEN "UNDO"
    ELSE IF id = ZS_TOAST_PAGE_ID THEN "TOAST"
    ELSE IF id = ZS_FREE_PAGE_ID THEN "FREE"
    ELSE "UNKNOWN"

\* C5: pg_zs_page_type returns META, BTREE, UNDO, TOAST or FREE exactly when the
\* tag is the constant of that page kind, and for every other 16-bit tag
\* UNKNOWN followed by the hexadecimal digits of that very tag.
C5_PageTypeTotal ==
    (fn = "pg_zs_page_type" /\ pc = "done") =>
        /\ result.kind = "text"
        /\ result.val[1] \in {"META", "BTREE", "UNDO", "TOAST", "FREE", "UNKNOWN"}
        /\ result.val[1] = KindName(zs_page_id)
        /\ result.val[1] # "UNKNOWN" => Len(result.val) = 1
        /\ result.val[1] = "UNKNOWN" =>
              /\ zs_page_id \notin KnownTags
              /\ Len(result.val) = 5
              /\ HexValue(SubSeq(result.val, 2, 5)) = zs_page_id
        /\ Cardinality(KnownTags) = 5

C5_Witness ==
    /\ fn = "pg_zs_page_type"
    /\ pc = "done"
    /\ zs_page_id = 65535
    /\ result.val = <<"UNKNOWN", 15, 15, 15, 15>>

MetaRow(page) ==
    <<ZS_META_BLK, page.undo_head, page.undo_tail, page.undo_tail_first_counter,
      page.oldest_counter, page.oldest_blkno, page.oldest_offset,
      page.fpm_head, page.flags>>

\* C10: the row pg_zs_meta_page returns is the metapage as it was at one
\* instant (when the call was granted the page's lock), whatever the undo log
\* writers do before and after; while the columns are read the page is as it
\* was at that instant.
C10_MetaRowIsSnapshot ==
    /\ (fn = "pg_zs_meta_page" /\ pc = "mp_values") =>
          values = SubSeq(MetaRow(metaSnap), 1, Len(values))
    /\ (fn = "pg_zs_meta_page" /\ pc = "done") =>
          /\ result.kind = "row"
          /\ result.val = MetaRow(metaSnap)

C10_Witness ==
    /\ fn = "pg_zs_meta_page"
    /\ pc = "done"
    /\ result.kind = "row"
    /\ result.val[2] # InvalidBlockNumber
    /\ result.val[5] > 0
    /\ rel[ZS_META_BLK] # metaSnap

\* The pages of relation r that pg_zs_btree_pages reports, in ascending order.
RECURSIVE BtreeBlocksFrom(_, _)
BtreeBlocksFrom(r, b) ==
    IF b >= NBlocks THEN << >>
    ELSE (IF r[b].specialsz = "ZSBtreePageOpaque" /\ r[b].tag = ZS_BTREE_PAGE_ID
          THEN <<b>> ELSE << >>) \o BtreeBlocksFrom(r, b + 1)

LeafOnlyColumns == {"ncompressed", "totalsz", "uncompressedsz"}

\* C11: pg_zs_btree_pages returns one row, in ascending page order, for each
\* page 1 .. nblocks-1 whose trailer size and tag are those of a BTREE page,
\* and no other row (none for page 0); a row carries the page's successor,
\* attribute and level, and its three leaf-only columns are non-null exactly
\* when the level is 0 (all three null otherwise).
C11_OneRowPerBtreePage ==
    (fn = "pg_zs_btree_pages" /\ pc = "done") =>
        /\ result.kind = "set"
        /\ result.val = rows
        /\ Len(rows) = Len(BtreeBlocksFrom(rel, 1))
        /\ \A i \in 1 .. Len(rows) :
              LET b == BtreeBlocksFrom(rel, 1)[i] IN
              /\ rows[i].blkno = b
              /\ b # ZS_META_BLK
              /\ rows[i].level = rel[b].level
              /\ rows[i].attno = rel[b].attno
              /\ rows[i].nextblk = rel[b].next
              /\ rows[i].nulls = IF rel[b].level = 0 THEN {} ELSE LeafOnlyColumns
        /\ \A i \in 1 .. (Len(rows) - 1) : rows[i].blkno < rows[i + 1].blkno

\* A scan that skipped a page with a BTREE-sized trailer and another tag, and
\* reported an internal page.
C11_Witness ==
    /\ fn = "pg_zs_btree_pages"
    /\ pc = "done"
    /\ rel[ZS_META_BLK].tag = ZS_BTREE_PAGE_ID
    /\ rel[1].specialsz = "ZSBtreePageOpaque"
    /\ rel[1].tag # ZS_BTREE_PAGE_ID
    /\ Len(rows) = 1
    /\ rows[1].blkno = 2
    /\ rows[1].level = 1
    /\ rows[1].nulls = LeafOnlyColumns

\* Following successor pointers from block b reaches the invalid page number.
RECURSIVE EndsFrom(_, _, _)
EndsFrom(r, b, fuel) ==
    IF b = InvalidBlockNumber THEN TRUE
    ELSE IF fuel = 0 \/ b \notin Blocks THEN FALSE
    ELSE EndsFrom(r, r[b].next, fuel - 1)

ChainReachesInvalid(r) == EndsFrom(r, r[ZS_META_BLK].undo_head, NBlocks)

\* C12: when the successor chain from the metapage's undo head reaches the
\* invalid page number, a call of pg_zs_undo_pages that is never cancelled
\* eventually returns, whatever the records on the pages contain; and the
\* record loop of a page, once entered, eventually leaves the page's records
\* behind (reaches pd_lower) and the row of the page is built.
C12_UndoWalkTerminates ==
    /\ (fn = "pg_zs_undo_pages" /\ pc = "up_meta_read" /\ ChainReachesInvalid(rel))
          ~> (pc = "done")
    /\ (fn = "pg_zs_undo_pages" /\ pc = "up_rec" /\ ChainReachesInvalid(rel))
          ~> (pc = "up_emit")

\* The record cursor rests on a record whose size field is 0.
SpinsOnRecord ==
    /\ fn = "pg_zs_undo_pages"
    /\ pc = "up_rec"
    /\ ptr < pd_lower(rel[blkno])
    /\ RecAt(rel[blkno], ptr).size = 0
    /\ nrecords > MaxRecs
    /\ held = {<<blkno, up_LockMode>>}

\* C13: a call of pg_zs_decode_chunk on which the decoder yields a chunk ends
\* by returning a row whose element count is the decoder's, and whose row-id,
\* value and null-flag arrays each have that many entries, in the decoder's
\* order, the value at i being null exactly when the null flag at i is set;
\* a call on which the decoder yields no chunk returns null.
C13_DecodedArraysAgree ==
    (fn = "pg_zs_decode_chunk" /\ pc \in {"done", "crashed"}) =>
        IF decoder.chunk
        THEN /\ pc = "done"
             /\ result.kind = "row"
             /\ result.val[1] = decoder.num_elements
             /\ \A k \in 2 .. 4 : Len(result.val[k]) = decoder.num_elements
             /\ result.val[2] = decoder.tids
             /\ result.val[4] = decoder.isnulls
             /\ \A i \in 1 .. decoder.num_elements :
                   result.val[3][i].isnull = result.val[4][i]
        ELSE /\ pc = "done"
             /\ result.kind = "null"

\* The stream areas of an attribute leaf that are larger than a stream header.
StreamAreas(page) ==
    {a \in {"lower", "upper"} :
        SumSeq(StreamSizes(IF a = "lower" THEN page.lower ELSE page.upper))
            > SizeOfZSAttStreamHeader}

RECURSIVE ItemSizeSum(_, _)
ItemSizeSum(page, k) == IF k = 0 THEN 0 ELSE page.items[k] + ItemSizeSum(page, k - 1)

\* C14: in every leaf row of pg_zs_btree_pages ncompressed <= nitems, and
\* ncompressed = 0 implies uncompressedsz = totalsz; for a leaf of the meta
\* attribute ncompressed is 0 and both sizes are the sum of the item sizes;
\* for an attribute leaf nitems is the number of streams present on the page
\* (0, 1 or 2), whatever the streams contain.
C14_LeafCounts ==
    fn = "pg_zs_btree_pages" =>
        \A i \in 1 .. Len(rows) :
            LET row == rows[i]
                page == rel[row.blkno]
            IN row.level = 0 =>
                /\ row.nulls = {}
                /\ row.ncompressed <= row.nitems
                /\ row.ncompressed = 0 => row.uncompressedsz = row.totalsz
                /\ row.attno = ZS_META_ATTRIBUTE_NUM =>
                      /\ row.ncompressed = 0
                      /\ row.nitems = Len(page.items)
                      /\ row.totalsz = ItemSizeSum(page, Len(page.items))
                      /\ row.uncompressedsz = row.totalsz
                /\ row.attno # ZS_META_ATTRIBUTE_NUM =>
                      /\ row.nitems = Cardinality(StreamAreas(page))
                      /\ row.nitems \in 0 .. 2

\* A leaf with one uncompressed stream of two chunks, and an area holding no
\* more than a stream header: one item, nothing compressed, equal sizes.
C14_Witness ==
    /\ fn = "pg_zs_btree_pages"
    /\ pc = "done"
    /\ Len(rows) = 1
    /\ rows[1].level = 0
    /\ rows[1].attno # ZS_META_ATTRIBUTE_NUM
    /\ rel[1].lower # NoStream
    /\ rel[1].lower[1].nchunks = 2
    /\ ~rel[1].lower[1].compressed
    /\ rel[1].upper # NoStream
    /\ rel[1].upper[1].t_size = SizeOfZSAttStreamHeader
    /\ rows[1].nitems = 1
    /\ rows[1].ncompressed = 0
    /\ rows[1].totalsz = rows[1].uncompressedsz
    /\ rows[1].totalsz = rel[1].lower[1].t_size

\* C15: the backend running an inspection function holds at most one page
\* lock at any time, and holds none while it asks (and possibly waits) for a
\* page lock; so it never takes part in a cycle of backends waiting for each
\* other's page locks.
C15_AtMostOneLock ==
    /\ Cardinality({l[1] : l \in held}) <= 1
    /\ \A w \in LockWaits : pc = w[1] => held = {}

====
